---- MODULE Spec2Model ----
(***************************************************************************)
(* The classic search session of static/main_app.js: the search form, the  *)
(* WebSocket channels opened by startSearch, the handlers of their events, *)
(* the rendered log and result list, and the persisted search history and  *)
(* saved searches (localStorage).  Strings that the code inspects or       *)
(* converts are sequences of one-character strings.                        *)
(***************************************************************************)
EXTENDS Integers, Sequences, FiniteSets, TLC

VARIABLES
    form,                \* the values held by the search form's inputs
    history,             \* localStorage 'searchHistory' (parsed list)
    searchHistoryList,   \* rendered history items: their data-history-index
    saved,               \* localStorage 'savedSearches': keys in insertion order and their values
    savedSearchesSelect, \* the <select>: its option values/labels and the selected option
    lastOp,              \* the most recent operation on the stored searches, and what it handed over
    lastSaved,           \* for each name, the request the user last saved under it
    channels,            \* the WebSocket objects created by startSearch
    ws,                  \* the module-level variable ws (a channel id, 0 = undefined)
    cancelled,           \* the channel stopped while scanning with nothing captured (0 = none)
    logDiv,              \* children of the log element
    logProgressElement,  \* index in logDiv of the progress element (0 = null)
    searchResults,       \* the module-level variable searchResults
    resultsDiv,          \* the result element: leading text and result items
    ui,                  \* hidden/disabled flags of the controls
    awaitingData,        \* currentTranslations['awaitingData'] (<<>> = not defined)
    opened,              \* number of WebSocket objects created by startSearch
    nStarts,             \* startSearch calls since the history was empty (-1 after a deletion)
    tempWs,              \* the WebSocket of initialLoad: its readyState and how often the settings were seeded
    exported,            \* the list items of the document last downloaded by exportToHTML (<<>> = none)
    sinceOpen,           \* what has been handled since the last onopen
    language,            \* the language switcher, the stored preference, the applied translations and the loads under way
    sliders,             \* for each synced retrieval parameter: slider, value label, settings input, stored value
    carousel             \* the cover flow slider of the landing page

vars == <<form, history, searchHistoryList, saved, savedSearchesSelect, lastOp, lastSaved,
          channels, ws, cancelled, logDiv, logProgressElement, searchResults, resultsDiv, ui,
          awaitingData, opened, nStarts, exported, tempWs, sinceOpen, language, sliders, carousel>>

storeVars == <<history, searchHistoryList, saved, savedSearchesSelect>>
sessionVars == <<channels, ws, cancelled, logDiv, logProgressElement, searchResults, resultsDiv, ui,
                 sinceOpen>>

----------------------------------------------------------------------------
(* Bounds of the model *)
TotalItems == 3      \* items of the cover flow slider (items.length)
MaxTimers == 4       \* timers of the cover flow slider pending at the same time
MaxLoads == 2        \* translation files loading at the same time
MaxChannels == 2     \* WebSocket objects alive at the same time
MaxStarts == 3       \* startSearch calls in a behaviour
MaxLog == 4          \* log lines after which no further event is delivered
MaxItems == 2        \* rendered result items after which no item_found is delivered
MaxRaw == 3          \* characters of a raw comma-separated text typed into the keywords field

(* Program constant *)
MAX_HISTORY == 15

\* null, undefined and NaN are the empty tuple; a present value x is <<x>>
NULL == <<>>
NaN == <<>>
UNDEFINED == <<>>
Some(x) == <<x>>

----------------------------------------------------------------------------
(* Strings *)
Min(a, b) == IF a < b THEN a ELSE b

WhiteSpace == {" ", "\t", "\n"}

RECURSIVE TrimStart(_)
TrimStart(s) == IF s # <<>> /\ Head(s) \in WhiteSpace THEN TrimStart(Tail(s)) ELSE s

RECURSIVE TrimEnd(_)
TrimEnd(s) ==
    IF s # <<>> /\ s[Len(s)] \in WhiteSpace THEN TrimEnd(SubSeq(s, 1, Len(s) - 1)) ELSE s

\* String.prototype.trim
Trim(s) == TrimEnd(TrimStart(s))

\* String.prototype.split(sep) for a one-character separator
RECURSIVE SplitAcc(_, _, _)
SplitAcc(s, sep, cur) ==
    IF s = <<>> THEN <<cur>>
    ELSE IF Head(s) = sep THEN <<cur>> \o SplitAcc(Tail(s), sep, <<>>)
    ELSE SplitAcc(Tail(s), sep, cur \o <<Head(s)>>)

Split(s, sep) == SplitAcc(s, sep, <<>>)

\* Array.prototype.join(sep), sep a string
RECURSIVE Join(_, _)
Join(list, sep) ==
    IF list = <<>> THEN <<>>
    ELSE IF Len(list) = 1 THEN list[1]
    ELSE list[1] \o sep \o Join(Tail(list), sep)

RECURSIVE MapTrim(_)
MapTrim(list) == IF list = <<>> THEN <<>> ELSE <<Trim(Head(list))>> \o MapTrim(Tail(list))

\* a filter that keeps every entry
KeepAll(list) == list

\* filter(Boolean) on a list of strings: the empty string is the only falsy one
RECURSIVE FilterBoolean(_)
FilterBoolean(list) ==
    IF list = <<>> THEN <<>>
    ELSE IF Head(list) = <<>> THEN FilterBoolean(Tail(list))
    ELSE <<Head(list)>> \o FilterBoolean(Tail(list))

\* value.split(',').map(k => k.trim()).filter(Boolean)
SplitTrimFilter(raw) == FilterBoolean(MapTrim(Split(raw, ",")))

Digit == [c \in {"0", "1", "2", "3", "4", "5", "6", "7", "8", "9"} |->
            CASE c = "0" -> 0 [] c = "1" -> 1 [] c = "2" -> 2 [] c = "3" -> 3 [] c = "4" -> 4
              [] c = "5" -> 5 [] c = "6" -> 6 [] c = "7" -> 7 [] c = "8" -> 8 [] c = "9" -> 9]

RECURSIVE DigitsValue(_, _)
DigitsValue(s, acc) ==
    IF s = <<>> \/ Head(s) \notin DOMAIN Digit THEN acc
    ELSE DigitsValue(Tail(s), acc * 10 + Digit[Head(s)])

\* parseInt(text, 10): leading white space, an optional sign, then the longest run of digits
ParseInt(text) ==
    LET t == TrimStart(text)
        neg == t # <<>> /\ Head(t) = "-"
        u == IF t # <<>> /\ Head(t) \in {"-", "+"} THEN Tail(t) ELSE t
    IN  IF u = <<>> \/ Head(u) \notin DOMAIN Digit THEN NaN
        ELSE IF neg THEN Some(0 - DigitsValue(u, 0)) ELSE Some(DigitsValue(u, 0))

\* decimal multipliers
MultipliersDecimal == [KB |-> 1000, MB |-> 1000 * 1000, GB |-> 1000 * 1000 * 1000]

Multipliers == [KB |-> 1024, MB |-> 1024 * 1024, GB |-> 1024 * 1024 * 1024]

\* !value holds of NaN and of 0
ConvertSizeToBytes(value, unit) ==
    IF value = NaN \/ value[1] = 0 \/ value[1] <= 0 THEN NULL
    ELSE Some(value[1] * Multipliers[unit])

BuildSearchPayload(f) ==
    LET minSizeValue == ParseInt(f.min_size_value)
        maxSizeValue == ParseInt(f.max_size_value)
    IN  [search_path |-> f.search_path,
         keywords |-> SplitTrimFilter(f.keywords),
         search_type |-> f.search_type,
         excluded_folders |-> SplitTrimFilter(f.excluded_folders),
         file_extensions |-> SplitTrimFilter(f.file_extensions),
         include_dot_folders |-> f.include_dot_folders,
         case_sensitive |-> f.case_sensitive,
         use_regex |-> f.use_regex,
         file_category |-> f.file_category,
         min_size |-> ConvertSizeToBytes(minSizeValue, f.min_size_unit),
         max_size |-> ConvertSizeToBytes(maxSizeValue, f.max_size_unit)]

----------------------------------------------------------------------------
(* Numbers to text (Number.prototype.toString of a non-negative quotient n / d) *)
DigitChar == <<"0", "1", "2", "3", "4", "5", "6", "7", "8", "9">>

RECURSIVE IntToText(_)
IntToText(n) == IF n < 10 THEN <<DigitChar[n + 1]>> ELSE IntToText(n \div 10) \o <<DigitChar[(n % 10) + 1]>>

RECURSIVE FractionDigits(_, _)
FractionDigits(r, d) ==
    IF r = 0 THEN <<>> ELSE <<DigitChar[((r * 10) \div d) + 1]>> \o FractionDigits((r * 10) % d, d)

QuotientToText(n, d) ==
    IntToText(n \div d) \o (IF n % d = 0 THEN <<>> ELSE <<".">> \o FractionDigits(n % d, d))

----------------------------------------------------------------------------
(* The search form *)

\* the options of the file_category <select>; '' stands for no selected option
FileCategoryOptions == {"", "Documents"}

PopulateSize(bytes, oldValue, oldUnit) ==
    IF bytes # NULL /\ bytes[1] # 0
    THEN IF bytes[1] >= Multipliers.GB THEN [value |-> QuotientToText(bytes[1], Multipliers.GB), unit |-> "GB"]
         ELSE IF bytes[1] >= Multipliers.MB THEN [value |-> QuotientToText(bytes[1], Multipliers.MB), unit |-> "MB"]
         ELSE [value |-> QuotientToText(bytes[1], Multipliers.KB), unit |-> "KB"]
    ELSE [value |-> <<>>, unit |-> oldUnit]

\* populateForm(data) for a stored request data; f is the form before the call
PopulateFields(data, f) ==
    LET min == PopulateSize(data.min_size, f.min_size_value, f.min_size_unit)
        max == PopulateSize(data.max_size, f.max_size_value, f.max_size_unit)
    IN  [f EXCEPT !.search_path = data.search_path,
                  !.keywords = Join(data.keywords, <<",", " ">>),
                  !.search_type = IF data.search_type = "" THEN "file_content" ELSE data.search_type,
                  !.case_sensitive = data.case_sensitive,
                  !.use_regex = data.use_regex,
                  !.include_dot_folders = data.include_dot_folders,
                  !.file_category = IF data.file_category \in FileCategoryOptions
                                    THEN data.file_category ELSE "",
                  !.min_size_value = min.value, !.min_size_unit = min.unit,
                  !.max_size_value = max.value, !.max_size_unit = max.unit]

\* populateForm: data is UNDEFINED or Some(request)
PopulateForm(data, f) == IF data = UNDEFINED THEN f ELSE PopulateFields(data[1], f)

----------------------------------------------------------------------------
(* localStorage: JSON.parse(JSON.stringify(request)) *)
JsonNumber(x) == IF x = NULL THEN NULL ELSE Some(x[1])

JsonRequest(p) ==
    [search_path |-> p.search_path,
     keywords |-> [i \in 1..Len(p.keywords) |-> p.keywords[i]],
     search_type |-> p.search_type,
     excluded_folders |-> [i \in 1..Len(p.excluded_folders) |-> p.excluded_folders[i]],
     file_extensions |-> [i \in 1..Len(p.file_extensions) |-> p.file_extensions[i]],
     include_dot_folders |-> p.include_dot_folders,
     case_sensitive |-> p.case_sensitive,
     use_regex |-> p.use_regex,
     file_category |-> p.file_category,
     min_size |-> JsonNumber(p.min_size),
     max_size |-> JsonNumber(p.max_size)]

----------------------------------------------------------------------------
(* Search history *)
Take(list, n) == SubSeq(list, 1, Min(n, Len(list)))

\* splice one position too far
SpliceNext(list, index, count) ==
    IF index + 1 >= Len(list) THEN list
    ELSE SubSeq(list, 1, index + 1) \o SubSeq(list, index + 2 + count, Len(list))

\* Array.prototype.splice(index, count) with a 0-based index: the array after the call
Splice(list, index, count) ==
    IF index >= Len(list) THEN list
    ELSE SubSeq(list, 1, index) \o SubSeq(list, index + 1 + count, Len(list))

\* loadSearchHistory: one item per stored entry, carrying its index
RenderHistory(h) == [i \in 1..Len(h) |-> i - 1]

\* push instead of unshift
Pushed(h, payload) == Take(h \o <<JsonRequest(payload)>>, MAX_HISTORY)

\* unshift without the slice
UnshiftedUnbounded(h, payload) == <<JsonRequest(payload)>> \o h

\* the history left as it was
NotRecorded(h, payload) == h

\* history.unshift(payload); history.slice(0, MAX_HISTORY)
Unshifted(h, payload) == Take(<<JsonRequest(payload)>> \o h, MAX_HISTORY)

AddSearchToHistory(payload) ==
    /\ history' = Unshifted(history, payload)
    /\ searchHistoryList' = RenderHistory(history')

\* the delete button of the k-th rendered history item
DeleteHistoryItem(k) ==
    /\ k \in 1..Len(searchHistoryList)
    /\ history' = Splice(history, searchHistoryList[k], 1)
    /\ searchHistoryList' = RenderHistory(history')
    /\ nStarts' = -1
    /\ lastOp' = [op |-> "removeHistory", name |-> <<>>, data |-> UNDEFINED]
    /\ UNCHANGED <<form, saved, savedSearchesSelect, lastSaved, awaitingData, language, sliders, carousel, tempWs, exported, opened>>
    /\ UNCHANGED sessionVars

\* a click on the k-th rendered history item outside its delete button
LoadHistoryItem(k) ==
    /\ k \in 1..Len(searchHistoryList)
    /\ LET index == searchHistoryList[k]
           searchData == IF index < Len(history) THEN Some(history[index + 1]) ELSE UNDEFINED
       IN  /\ lastOp' = [op |-> "loadHistory", name |-> <<>>, data |-> searchData]
           /\ form' = PopulateForm(searchData, form)
    /\ UNCHANGED <<lastSaved, awaitingData, language, sliders, carousel, tempWs, exported, opened, nStarts>>
    /\ UNCHANGED storeVars
    /\ UNCHANGED sessionVars

----------------------------------------------------------------------------
(* Saved searches.  saved is the list of <<name, request>> in key order;   *)
(* the model's names are not array indices, so key order is insertion      *)
(* order.                                                                  *)
SavedNames == [i \in 1..Len(saved) |-> saved[i][1]]

HasKey(s, name) == \E i \in 1..Len(s) : s[i][1] = name

\* searches[name]
Lookup(s, name) ==
    IF HasKey(s, name) THEN Some(s[CHOOSE i \in 1..Len(s) : s[i][1] = name][2]) ELSE UNDEFINED

\* a second entry instead of an overwrite
AssignAppends(s, name, request) == Append(s, <<name, request>>)

\* searches[name] = request
Assign(s, name, request) ==
    IF HasKey(s, name)
    THEN [i \in 1..Len(s) |-> IF s[i][1] = name THEN <<name, request>> ELSE s[i]]
    ELSE Append(s, <<name, request>>)

\* delete searches[name]
RECURSIVE Remove(_, _)
Remove(s, name) ==
    IF s = <<>> THEN <<>>
    ELSE IF Head(s)[1] = name THEN Remove(Tail(s), name)
    ELSE <<Head(s)>> \o Remove(Tail(s), name)

\* the value the HTML parser gives value="${name}": the text before the first double quote
RECURSIVE AttributeValue(_)
AttributeValue(text) ==
    IF text = <<>> \/ Head(text) = "\"" THEN <<>>
    ELSE <<Head(text)>> \o AttributeValue(Tail(text))

\* loadSavedSearches: the options rebuilt from the stored names, the first one selected
RenderSavedSearches(s) ==
    IF Len(s) > 0
    THEN [options |-> [i \in 1..Len(s) |-> [value |-> AttributeValue(s[i][1]), label |-> s[i][1]]],
          selected |-> 1, disabled |-> FALSE]
    ELSE [options |-> <<[value |-> <<>>, label |-> <<>>]>>, selected |-> 1, disabled |-> TRUE]

\* savedSearchesSelect.value
SelectValue(sel) == sel.options[sel.selected].value

\* the name the user reads on the selected option
SelectedLabel(sel) == sel.options[sel.selected].label

NoOp == [op |-> "none", name |-> <<>>, data |-> UNDEFINED]

\* the user picks another option of the select
SelectSavedSearch(i) ==
    /\ ~savedSearchesSelect.disabled
    /\ i \in 1..Len(savedSearchesSelect.options)
    /\ i # savedSearchesSelect.selected
    /\ savedSearchesSelect' = [savedSearchesSelect EXCEPT !.selected = i]
    /\ UNCHANGED <<form, history, searchHistoryList, saved, lastOp, lastSaved, awaitingData, language, sliders, carousel, tempWs, exported,
                   opened, nStarts>>
    /\ UNCHANGED sessionVars

\* saveCurrentSearch with the prompt answered name (<<>>: cancelled or left empty)
SaveCurrentSearch(name) ==
    /\ IF name = <<>>
       THEN UNCHANGED <<saved, savedSearchesSelect, lastOp, lastSaved>>
       ELSE /\ saved' = Assign(saved, name, JsonRequest(BuildSearchPayload(form)))
            /\ savedSearchesSelect' = RenderSavedSearches(saved')
            /\ lastSaved' = Assign(lastSaved, name, BuildSearchPayload(form))
            /\ lastOp' = [op |-> IF HasKey(lastSaved, name) THEN "overwrite" ELSE "save",
                          name |-> name, data |-> UNDEFINED]
    /\ UNCHANGED <<form, history, searchHistoryList, awaitingData, language, sliders, carousel, tempWs, exported, opened, nStarts>>
    /\ UNCHANGED sessionVars

\* loadSelectedSearch (the load button is disabled while there is no saved search)
LoadSelectedSearch ==
    /\ ~savedSearchesSelect.disabled
    /\ LET search == Lookup(saved, SelectValue(savedSearchesSelect))
       IN  /\ lastOp' = [op |-> "load", name |-> SelectedLabel(savedSearchesSelect),
                         data |-> search]
           /\ form' = PopulateForm(search, form)
    /\ UNCHANGED <<lastSaved, awaitingData, language, sliders, carousel, tempWs, exported, opened, nStarts>>
    /\ UNCHANGED storeVars
    /\ UNCHANGED sessionVars

\* a delete that also wipes the stored history
DeleteAlsoClearsHistory(confirmed) ==
    /\ ~savedSearchesSelect.disabled
    /\ saved' = Remove(saved, SelectValue(savedSearchesSelect))
    /\ savedSearchesSelect' = RenderSavedSearches(saved')
    /\ lastSaved' = Remove(lastSaved, SelectedLabel(savedSearchesSelect))
    /\ lastOp' = [op |-> "delete", name |-> SelectedLabel(savedSearchesSelect), data |-> UNDEFINED]
    /\ history' = <<>>
    /\ searchHistoryList' = <<>>
    /\ UNCHANGED <<form, awaitingData, language, sliders, carousel, tempWs, exported, opened, nStarts>>
    /\ UNCHANGED sessionVars

\* deleteSelectedSearch; confirmed is the answer to confirm()
DeleteSelectedSearch(confirmed) ==
    /\ ~savedSearchesSelect.disabled
    /\ LET name == SelectValue(savedSearchesSelect)
           label == SelectedLabel(savedSearchesSelect)
       IN  IF name = <<>> \/ ~confirmed
           THEN /\ lastOp' = [op |-> "declined", name |-> label, data |-> UNDEFINED]
                /\ UNCHANGED <<saved, savedSearchesSelect, lastSaved>>
           ELSE /\ saved' = Remove(saved, name)
                /\ savedSearchesSelect' = RenderSavedSearches(saved')
                /\ lastSaved' = Remove(lastSaved, label)
                /\ lastOp' = [op |-> "delete", name |-> label, data |-> UNDEFINED]
    /\ UNCHANGED <<form, history, searchHistoryList, awaitingData, language, sliders, carousel, tempWs, exported, opened, nStarts>>
    /\ UNCHANGED sessionVars

----------------------------------------------------------------------------
(* Rendering: the log and the result list *)

\* escapeHTML: the innerHTML of a <p> whose textContent is str
EscapeChar(c) ==
    IF c = "&" THEN "&amp;" ELSE IF c = "<" THEN "&lt;" ELSE IF c = ">" THEN "&gt;" ELSE c

EscapeHTML(str) == [i \in 1..Len(str) |-> EscapeChar(str[i])]

\* the HTML parser on character data: entities back to characters
DecodeChar(c) ==
    IF c = "&amp;" THEN "&" ELSE IF c = "&lt;" THEN "<" ELSE IF c = "&gt;" THEN ">" ELSE c

HtmlText(markup) == [i \in 1..Len(markup) |-> DecodeChar(markup[i])]

AwaitingDefault == <<">", " ", "AWAITING DATA...">>
NoMatchText == <<">", " ", "NO MATCHING ITEMS FOUND.">>

\* an item template that starts with the path span
NoIndent == <<>>

\* the white space the item template puts before the path span
ItemIndent == <<"\n", " ">>

RECURSIVE ItemsText(_)
ItemsText(items) ==
    IF items = <<>> THEN <<>> ELSE ItemIndent \o Head(items).path \o ItemsText(Tail(items))

\* resultsDiv.textContent
TextContent(div) == div.text \o ItemsText(div.items)

StartsWith(text, c) == text # <<>> /\ Head(text) = c

EmptyDiv == [text |-> <<>>, items |-> <<>>]

\* the element built by appendSingleResult: the span's text and the data-path attribute
ResultItem(path) ==
    [path |-> HtmlText(EscapeHTML(path)),
     dataPath |-> HtmlText(AttributeValue(EscapeHTML(path)))]

\* the new item put before the others
PrependSingleResult(div, path) ==
    LET d == IF StartsWith(TextContent(div), ">") THEN EmptyDiv ELSE div
    IN  [d EXCEPT !.items = <<ResultItem(path)>> \o @]

AppendSingleResult(div, path) ==
    LET d == IF StartsWith(TextContent(div), ">") THEN EmptyDiv ELSE div
    IN  [d EXCEPT !.items = Append(@, ResultItem(path))]

RECURSIVE AppendAll(_, _)
AppendAll(div, results) ==
    IF results = <<>> THEN div
    ELSE AppendAll(AppendSingleResult(div, Head(results)), Tail(results))

\* renderResults: the result element after the call
RenderResults(results) ==
    IF Len(results) > 0 THEN AppendAll(EmptyDiv, results)
    ELSE IF StartsWith(TextContent(EmptyDiv), ">") THEN [EmptyDiv EXCEPT !.text = NoMatchText]
    ELSE EmptyDiv

\* the paths shown by the result element, in order
RenderedPaths(div) == [i \in 1..Len(div.items) |-> div.items[i].path]

\* appendLog(html, clear): the children of the log element after the call
AppendLog(log, line, clear) == Append(IF clear THEN <<>> ELSE log, line)

\* a log line: its kind, the text put into it and, in a progress line, the values shown
LogLine(kind, text) == [kind |-> kind, text |-> text, progress |-> <<>>]

ProgressLine(progress) == [kind |-> "progress", text |-> "SCANNING...", progress |-> progress]

\* a new progress element for every event
UpdateScanProgressAppends(log, element, progress) ==
    [log |-> Append(log, ProgressLine(Some(progress))), element |-> Len(log) + 1]

\* updateScanProgress: the log and logProgressElement after the call
UpdateScanProgress(log, element, progress) ==
    LET log1 == IF element = 0 THEN Append(log, ProgressLine(<<>>)) ELSE log
        el == IF element = 0 THEN Len(log1) ELSE element
    IN  [log |-> [log1 EXCEPT ![el] = ProgressLine(Some(progress))], element |-> el]

\* the progress lines of the log
ProgressLines(log) == {i \in 1..Len(log) : log[i].kind = "progress"}

ResetUIBeforeSearch(u) ==
    [u EXCEPT !.resultsHidden = FALSE, !.statusHidden = FALSE, !.exportHidden = TRUE,
              !.formHidden = TRUE, !.scanHidden = FALSE, !.stopHidden = FALSE,
              !.stopDisabled = FALSE, !.stopText = "TERMINATE SCAN", !.newHidden = TRUE]

AwaitingText == IF awaitingData # <<>> THEN awaitingData ELSE AwaitingDefault

ResetUIForNewSearch(u) ==
    [u EXCEPT !.formHidden = FALSE, !.scanHidden = TRUE, !.statusHidden = TRUE,
              !.resultsHidden = TRUE, !.exportHidden = TRUE]

\* the log element is a child of the status section: its lines are shown while
\* the section is not hidden
LogShown(u) == ~u.statusHidden

\* ws.onclose: the flags after the handler
OnCloseUI(u) ==
    IF ~u.scanHidden THEN [u EXCEPT !.stopHidden = TRUE, !.newHidden = FALSE] ELSE u

----------------------------------------------------------------------------
(* The channels *)
ChannelIds == 1..MaxChannels

\* a WebSocket object: its readyState, the payload its handlers close over, the
\* start_search payloads the server received on it, whether an error or
\* scan_complete event of it has been handled, and whether an error event of it
\* has been handled
NoChannel ==
    [readyState |-> "NONE", payload |-> <<>>, received |-> <<>>, terminal |-> FALSE, failed |-> FALSE]

\* the session of channel i is Scanning
Scanning(i) ==
    /\ i # 0
    /\ channels[i].readyState = "OPEN"
    /\ channels[i].received # <<>>
    /\ ~channels[i].terminal

\* the channels created by startSearch that are connecting or open
ActiveChannels == {i \in ChannelIds : channels[i].readyState \in {"CONNECTING", "OPEN"}}

\* no close at all
CloseNever(chs, id) == chs

\* ws.close() on the channel ws refers to, when it is open
CloseIfOpen(chs, id) ==
    IF id # 0 /\ chs[id].readyState = "OPEN" THEN [chs EXCEPT ![id].readyState = "CLOSING"] ELSE chs

\* a send that never reaches the server
SendDropped(chs, id, payload) == chs

\* ws.send(message): queued on an open channel, an exception on a connecting
\* one, dropped on a closing or closed one
Send(chs, id, payload) ==
    IF chs[id].readyState = "OPEN" THEN [chs EXCEPT ![id].received = Append(@, payload)] ELSE chs

Saturate(n) == IF n = -1 THEN -1 ELSE Min(n + 1, MAX_HISTORY + 1)

\* a form that submits whatever its fields hold
SubmitAlways(f) == TRUE

\* the search_path input is required: the form raises no submit event while it is empty
SubmitAllowed(f) == f.search_path # <<>>

\* startSearch, called by the submit listener of the search form
StartSearch ==
    /\ ~ui.formHidden
    /\ SubmitAllowed(form)
    /\ \E i \in ChannelIds :
        /\ channels[i].readyState \in {"NONE", "CLOSED"}
        /\ \A j \in 1..(i - 1) : channels[j].readyState \notin {"NONE", "CLOSED"}
        /\ LET payload == BuildSearchPayload(form)
           IN  /\ AddSearchToHistory(payload)
               /\ channels' = [channels EXCEPT ![i] =
                                 [readyState |-> "CONNECTING", payload |-> Some(payload),
                                  received |-> <<>>, terminal |-> FALSE, failed |-> FALSE]]
               /\ ws' = i
    /\ opened' = opened + 1
    /\ nStarts' = Saturate(nStarts)
    /\ cancelled' = 0
    /\ UNCHANGED <<form, saved, savedSearchesSelect, lastOp, lastSaved, logDiv, logProgressElement,
                   searchResults, resultsDiv, ui, awaitingData, language, sliders, carousel, tempWs, exported, sinceOpen>>

\* sinceOpen.phase is "streaming" while, config events aside, only scan_start,
\* item_found and scan_progress events have been handled since the last onopen, "complete" right after a scan_complete
\* that ended such a phase, and "other" otherwise; found counts the item_found events
\* with paths their paths in arrival order, and progress is the payload of the last
\* scan_progress event of the phase; done
\* tells that a scan_complete event with a non-empty results list has been handled
\* since the last onopen
NoEvents == [phase |-> "streaming", found |-> 0, paths |-> <<>>, progress |-> <<>>, done |-> FALSE]

Other == [phase |-> "other", found |-> 0, paths |-> <<>>, progress |-> <<>>, done |-> sinceOpen.done]

Completed == IF sinceOpen.phase = "streaming" THEN [sinceOpen EXCEPT !.phase = "complete"] ELSE Other

Streamed(next) == IF sinceOpen.phase = "streaming" THEN next ELSE Other

\* channel i opens: its onopen handler
OnOpen(i) ==
    /\ channels[i].readyState = "CONNECTING"
    /\ LET payload == channels[i].payload[1]
           nowOpen == [channels EXCEPT ![i].readyState = "OPEN"]
           log1 == AppendLog(logDiv, LogLine("searching", Join(payload.keywords, <<",", " ">>)), TRUE)
       IN  /\ searchResults' = <<>>
           /\ resultsDiv' = [text |-> AwaitingText, items |-> <<>>]
           /\ ui' = ResetUIBeforeSearch(ui)
           /\ logDiv' = AppendLog(log1, LogLine("target", payload.search_path), FALSE)
           /\ logProgressElement' = 0
           /\ channels' = Send(nowOpen, ws, JsonRequest(payload))
    /\ sinceOpen' = NoEvents
    /\ cancelled' = 0
    /\ UNCHANGED <<form, lastOp, lastSaved, ws, awaitingData, language, sliders, carousel, tempWs, exported, opened, nStarts>>
    /\ UNCHANGED storeVars

----------------------------------------------------------------------------
(* Events of the server *)
PathA == <<"a">>
PathB == <<">", "b">>
Paths == {PathA, PathB}
ResultLists == {<<>>, <<PathA>>, <<PathA, PathB>>, <<PathB, PathA>>}
Progresses == {[scanned |-> 5, found |-> 1], [scanned |-> 9, found |-> 2]}

Messages ==
    {[type |-> "error", message |-> "failed"], [type |-> "scan_start", task_id |-> "1"]}
    \cup {[type |-> "item_found", path |-> p] : p \in Paths}
    \cup {[type |-> "scan_progress", progress |-> g] : g \in Progresses}
    \cup {[type |-> "scan_complete", results |-> r, summary |-> "done"] : r \in ResultLists}

\* the events delivered where several searches are started
SessionMessages ==
    {[type |-> "error", message |-> "failed"], [type |-> "scan_start", task_id |-> "1"],
     [type |-> "item_found", path |-> PathA],
     [type |-> "scan_progress", progress |-> [scanned |-> 5, found |-> 1]],
     [type |-> "scan_complete", results |-> <<PathA>>, summary |-> "done"]}

\* the config branch of handleWebSocketMessage rewrites the options of the
\* file_category <select>, which then selects its first option
ConfigSelects(data, f) ==
    IF data.type = "config" /\ Len(data.file_categories) > 0
    THEN [f EXCEPT !.file_category = data.file_categories[1]]
    ELSE f

\* handleWebSocketMessage(data); chs is the channels when the handler is entered.
\* The config events of the model list the categories the select already offers
HandleWebSocketMessage(data, chs) ==
    CASE data.type = "config" ->
            /\ channels' = chs
            /\ UNCHANGED <<logDiv, logProgressElement, searchResults, resultsDiv, ui, sinceOpen>>
      [] data.type = "error" ->
            /\ logDiv' = AppendLog(logDiv, LogLine("error", data.message), FALSE)
            /\ channels' = CloseIfOpen(chs, ws)
            /\ sinceOpen' = Other
            /\ UNCHANGED <<logProgressElement, searchResults, resultsDiv, ui>>
      [] data.type = "scan_start" ->
            /\ logDiv' = AppendLog(logDiv, LogLine("task", data.task_id), FALSE)
            /\ sinceOpen' = Streamed(sinceOpen)
            /\ channels' = chs
            /\ UNCHANGED <<logProgressElement, searchResults, resultsDiv, ui>>
      [] data.type = "item_found" ->
            /\ resultsDiv' = AppendSingleResult(resultsDiv, data.path)
            /\ sinceOpen' = Streamed([sinceOpen EXCEPT !.found = @ + 1, !.paths = Append(@, data.path)])
            /\ channels' = chs
            /\ UNCHANGED <<logDiv, logProgressElement, searchResults, ui>>
      [] data.type = "scan_progress" ->
            /\ LET r == UpdateScanProgress(logDiv, logProgressElement, data.progress)
               IN  /\ logDiv' = r.log
                   /\ logProgressElement' = r.element
            /\ sinceOpen' = Streamed([sinceOpen EXCEPT !.progress = Some(data.progress)])
            /\ channels' = chs
            /\ UNCHANGED <<searchResults, resultsDiv, ui>>
      [] data.type = "scan_complete" ->
            /\ logProgressElement' = 0
            /\ logDiv' = AppendLog(logDiv, LogLine("complete", data.summary), FALSE)
            /\ searchResults' = data.results
            /\ resultsDiv' = RenderResults(data.results)
            /\ ui' = IF Len(data.results) > 0 THEN [ui EXCEPT !.exportHidden = FALSE] ELSE ui
            /\ sinceOpen' = [Completed EXCEPT !.done = @ \/ Len(data.results) > 0]
            /\ channels' = chs

\* the events whose handling adds a line to the log
AppendsLogLine(data) ==
    \/ data.type \in {"error", "scan_start", "scan_complete"}
    \/ data.type = "scan_progress" /\ logProgressElement = 0

\* channel i has delivered a terminal event
Marked(i, data) ==
    IF data.type = "error" THEN [channels EXCEPT ![i].terminal = TRUE, ![i].failed = TRUE]
    ELSE IF data.type = "scan_complete" THEN [channels EXCEPT ![i].terminal = TRUE]
    ELSE channels

\* a message event on channel i (ws.onmessage); the browser delivers messages
\* only while the channel is open, and the server answers a start_search
OnMessage(i, data) ==
    /\ channels[i].readyState = "OPEN"
    /\ channels[i].received # <<>>
    /\ AppendsLogLine(data) => Len(logDiv) < MaxLog
    /\ data.type = "item_found" => Len(resultsDiv.items) < MaxItems
    /\ HandleWebSocketMessage(data, Marked(i, data))
    /\ cancelled' = IF i = cancelled THEN cancelled ELSE 0
    /\ form' = ConfigSelects(data, form)
    /\ UNCHANGED <<lastOp, lastSaved, ws, awaitingData, language, sliders, carousel, tempWs, exported, opened, nStarts>>
    /\ UNCHANGED storeVars

\* the WebSocket created by initialLoad and those created by startSearch
ChannelsOpened == 1 + opened

\* a handler that opens a new channel after a failure
RetryOnce(n) == n + 1

\* ws.onerror and ws.onclose create no WebSocket: the number created so far, after them
NoRetry(n) == n

\* the transport of channel i fails (no connection, or the connection drops):
\* the error event and then the close event
OnErrorAndClose(i) ==
    /\ channels[i].readyState \in {"CONNECTING", "OPEN"}
    /\ channels' = [channels EXCEPT ![i].readyState = "CLOSED"]
    /\ logDiv' = AppendLog(logDiv, LogLine("wserror", "Connection failed."), FALSE)
    /\ ui' = OnCloseUI(ui)
    /\ logProgressElement' = 0
    /\ sinceOpen' = Other
    /\ opened' = NoRetry(opened)
    /\ UNCHANGED <<form, lastOp, lastSaved, ws, cancelled, searchResults, resultsDiv, awaitingData, language, sliders, carousel, tempWs, exported,
                   nStarts>>
    /\ UNCHANGED storeVars

\* channel i is closed, by the server or after ws.close(): the close event
OnClose(i) ==
    /\ channels[i].readyState \in {"OPEN", "CLOSING"}
    /\ channels' = [channels EXCEPT ![i].readyState = "CLOSED"]
    /\ ui' = OnCloseUI(ui)
    /\ logProgressElement' = 0
    /\ sinceOpen' = Other
    /\ UNCHANGED <<form, lastOp, lastSaved, ws, cancelled, logDiv, searchResults, resultsDiv, awaitingData, language, sliders, carousel, tempWs, exported,
                   opened, nStarts>>
    /\ UNCHANGED storeVars

\* stopSearch, the click listener of the stop button
StopSearch ==
    /\ ~ui.scanHidden /\ ~ui.stopHidden /\ ~ui.stopDisabled
    /\ channels' = CloseIfOpen(channels, ws)
    /\ cancelled' = IF Scanning(ws) /\ searchResults = <<>> /\ resultsDiv.items = <<>>
                        /\ ui.exportHidden
                     THEN ws ELSE 0
    /\ logDiv' = AppendLog(logDiv, LogLine("terminated", "SCAN MANUALLY TERMINATED."), FALSE)
    /\ ui' = [ui EXCEPT !.stopDisabled = TRUE, !.stopText = "TERMINATED"]
    /\ sinceOpen' = Other
    /\ UNCHANGED <<form, lastOp, lastSaved, ws, logProgressElement, searchResults, resultsDiv,
                   awaitingData, language, sliders, carousel, tempWs, exported, opened, nStarts>>
    /\ UNCHANGED storeVars

\* resetUIForNewSearch, the click listener of the new-search button
NewSearch ==
    /\ ~ui.scanHidden /\ ~ui.newHidden
    /\ ui' = ResetUIForNewSearch(ui)
    /\ logDiv' = <<>>
    /\ resultsDiv' = EmptyDiv
    /\ logProgressElement' = 0
    /\ sinceOpen' = Other
    /\ UNCHANGED <<form, lastOp, lastSaved, channels, ws, cancelled, searchResults, awaitingData, language, sliders, carousel, tempWs, exported,
                   opened, nStarts>>
    /\ UNCHANGED storeVars

\* the config event of the server
ConfigMessage ==
    [type |-> "config", file_categories |-> <<"", "Documents">>,
     defaults |-> [excluded_folders |-> << <<"n">>, <<"m">> >>, file_extensions |-> <<>>]]

\* defaults?.field || []
DefaultList(data, field) ==
    IF "defaults" \in DOMAIN data /\ field \in DOMAIN data.defaults THEN data.defaults[field] ELSE <<>>

\* loadAndApplySettings(data.defaults): the fields of the search request it fills
LoadAndApplySettings(data, f) ==
    [f EXCEPT !.excluded_folders = Join(DefaultList(data, "excluded_folders"), <<",", " ">>),
              !.file_extensions = Join(DefaultList(data, "file_extensions"), <<",", " ">>)]

\* a startup handler that hands every event on
TempHandlesAll(data) == TRUE

\* tempWs.onmessage: if (data.type === 'config')
TempHandles(data) == data.type = "config"

\* the startup channel opens (tempWs has no onopen handler)
TempOpen ==
    /\ tempWs.readyState = "CONNECTING"
    /\ tempWs' = [tempWs EXCEPT !.readyState = "OPEN"]
    /\ UNCHANGED <<form, lastOp, lastSaved, awaitingData, language, sliders, carousel, opened, nStarts, exported>>
    /\ UNCHANGED storeVars
    /\ UNCHANGED sessionVars

\* a message event on the startup channel (tempWs.onmessage)
TempMessage(data) ==
    /\ tempWs.readyState = "OPEN"
    /\ IF TempHandles(data)
       THEN /\ HandleWebSocketMessage(data, channels)
            /\ form' = LoadAndApplySettings(data, ConfigSelects(data, form))
            /\ tempWs' = [readyState |-> "CLOSING", seeded |-> tempWs.seeded + 1]
       ELSE UNCHANGED <<form, tempWs, channels, logDiv, logProgressElement, searchResults, resultsDiv,
                        ui, sinceOpen>>
    /\ UNCHANGED <<lastOp, lastSaved, ws, cancelled, awaitingData, language, sliders, carousel, opened, nStarts, exported>>
    /\ UNCHANGED storeVars

\* the startup channel fails or its closing handshake ends (tempWs has neither an
\* onerror nor an onclose handler)
TempClose ==
    /\ tempWs.readyState \in {"CONNECTING", "OPEN", "CLOSING"}
    /\ tempWs' = [tempWs EXCEPT !.readyState = "CLOSED"]
    /\ UNCHANGED <<form, lastOp, lastSaved, awaitingData, language, sliders, carousel, opened, nStarts, exported>>
    /\ UNCHANGED storeVars
    /\ UNCHANGED sessionVars

\* exportToHTML, the click listener of the export button: one <li> per captured
\* result, its path escaped
ExportToHTML ==
    /\ ~ui.exportHidden
    /\ exported' = Some([k \in 1..Len(searchResults) |-> EscapeHTML(searchResults[k])])
    /\ UNCHANGED <<form, lastOp, lastSaved, awaitingData, language, sliders, carousel, tempWs, opened, nStarts>>
    /\ UNCHANGED storeVars
    /\ UNCHANGED sessionVars

----------------------------------------------------------------------------
(* The user's input *)
FormA ==
    [search_path |-> <<"/", "d">>, keywords |-> <<"a", ",", " ", "b">>,
     search_type |-> "file_content", excluded_folders |-> <<>>, file_extensions |-> <<>>,
     include_dot_folders |-> FALSE, case_sensitive |-> FALSE, use_regex |-> FALSE,
     file_category |-> "", min_size_value |-> <<>>, min_size_unit |-> "KB",
     max_size_value |-> <<>>, max_size_unit |-> "KB"]

FormB == [FormA EXCEPT !.keywords = <<"c">>, !.case_sensitive = TRUE, !.min_size_value = <<"2">>]

Forms == {FormA, FormB}

NameA == <<"a">>
NameB == <<"b">>
NameQ == <<"a", "\"", "b">>
Names == {NameA, NameB, NameQ}

\* the user edits the form
EditForm ==
    /\ \E f \in Forms : f # form /\ form' = f
    /\ UNCHANGED <<lastOp, lastSaved, awaitingData, language, sliders, carousel, tempWs, exported, opened, nStarts>>
    /\ UNCHANGED storeVars
    /\ UNCHANGED sessionVars

----------------------------------------------------------------------------
(* Initial states and specifications *)
InitUI ==
    [formHidden |-> FALSE, scanHidden |-> TRUE, statusHidden |-> TRUE, resultsHidden |-> TRUE,
     exportHidden |-> TRUE, stopHidden |-> FALSE, stopDisabled |-> FALSE,
     stopText |-> "TERMINATE SCAN", newHidden |-> TRUE]

InitSession ==
    /\ channels = [i \in ChannelIds |-> NoChannel]
    /\ ws = 0
    /\ cancelled = 0
    /\ logDiv = <<>>
    /\ logProgressElement = 0
    /\ searchResults = <<>>
    /\ resultsDiv = EmptyDiv
    /\ ui = InitUI
    /\ sinceOpen = [phase |-> "other", found |-> 0, paths |-> <<>>, progress |-> <<>>, done |-> FALSE]

----------------------------------------------------------------------------
(* Languages *)
Langs == {"en", "fa", "de"}

rtlLangs == {"fa", "ar", "he", "ur"}

Dir(lang) == IF lang \in rtlLangs THEN "rtl" ELSE "ltr"

\* translations['awaitingData'] of the file of a language (<<>>: the key is missing)
AwaitingOf(lang) ==
    CASE lang = "en" -> <<>>
      [] lang = "fa" -> <<">", " ", "DAR ENTEZAR-E DADE...">>
      [] lang = "de" -> <<">", " ", "WARTE AUF DATEN...">>

\* resultsDiv.textContent.includes('AWAITING DATA') or includes the Persian
\* placeholder, written here in Latin letters
ShowsAwaiting(div) ==
    \E k \in 1..Len(TextContent(div)) : TextContent(div)[k] \in {"AWAITING DATA...", "DAR ENTEZAR-E DADE..."}

\* the page after initialLoad has applied the English file; no preference is stored
InitLanguage ==
    [preferred |-> <<>>, switcher |-> "en", current |-> "en", dir |-> "ltr", lang |-> "en",
     loads |-> <<>>, overlapped |-> FALSE, failed |-> FALSE]

RemoveAt(list, k) == SubSeq(list, 1, k - 1) \o SubSeq(list, k + 1, Len(list))

\* setLanguage(lang), called by the change listener of the switcher; translatePage
\* runs up to its fetch.  overlapped tells that a load was under way when one of
\* the loads now under way began, failed that one of them failed
SetLanguage(lang) ==
    /\ lang # language.switcher
    /\ Len(language.loads) < MaxLoads
    /\ language' = [language EXCEPT !.preferred = <<lang>>, !.switcher = lang,
                                     !.loads = Append(@, [lang |-> lang, stage |-> "fetch"]),
                                     !.overlapped = language.loads # <<>>,
                                     !.failed = language.loads # <<>> /\ @]
    /\ UNCHANGED <<form, lastOp, lastSaved, awaitingData, sliders, carousel, tempWs, exported, opened, nStarts>>
    /\ UNCHANGED storeVars
    /\ UNCHANGED sessionVars

\* the fetch of the k-th load under way settles: translatePage runs up to
\* response.json(), or falls back to the English file
FetchSettles(k, ok) ==
    /\ k \in 1..Len(language.loads)
    /\ language.loads[k].stage = "fetch"
    /\ language' =
         IF ok THEN [language EXCEPT !.loads[k].stage = "json"]
         ELSE IF language.loads[k].lang # "en"
              THEN [language EXCEPT !.loads[k] = [lang |-> "en", stage |-> "fetch"], !.failed = TRUE]
              ELSE [language EXCEPT !.loads = RemoveAt(@, k), !.failed = TRUE]
    /\ UNCHANGED <<form, lastOp, lastSaved, awaitingData, sliders, carousel, tempWs, exported, opened, nStarts>>
    /\ UNCHANGED storeVars
    /\ UNCHANGED sessionVars

\* response.json() of the k-th load under way settles: translatePage runs to its
\* end, or to its catch clause
JsonSettles(k, parsed) ==
    /\ k \in 1..Len(language.loads)
    /\ language.loads[k].stage = "json"
    /\ LET lang == language.loads[k].lang
       IN  IF parsed
           THEN /\ language' = [language EXCEPT !.current = lang, !.dir = Dir(lang), !.lang = lang,
                                                !.loads = RemoveAt(@, k)]
                /\ awaitingData' = AwaitingOf(lang)
                /\ resultsDiv' = IF ShowsAwaiting(resultsDiv)
                                 THEN [text |-> IF AwaitingOf(lang) # <<>> THEN AwaitingOf(lang)
                                                ELSE AwaitingDefault,
                                       items |-> <<>>]
                                 ELSE resultsDiv
           ELSE /\ language' = [language EXCEPT !.loads = RemoveAt(@, k), !.failed = TRUE]
                /\ UNCHANGED <<awaitingData, resultsDiv>>
    /\ UNCHANGED <<form, lastOp, lastSaved, sliders, carousel, tempWs, exported, opened, nStarts>>
    /\ UNCHANGED storeVars
    /\ UNCHANGED <<channels, ws, cancelled, logDiv, logProgressElement, searchResults, ui, sinceOpen>>

----------------------------------------------------------------------------
(* Synced retrieval parameters *)
Params == {"k_fetch_initial", "vector_top_n", "rerank_top_n"}

\* the values a quick slider can take, and what a settings field can hold
SliderValues == {"10", "50"}
FieldValues == SliderValues \cup {""}

\* loadAndApplySettings: slider, label and settings input show the default;
\* entered is the value the user entered last (<<>>: none yet)
InitSliders ==
    [p \in Params |-> [slider |-> "50", label |-> "50", input |-> "50", stored |-> <<>>, entered |-> <<>>]]

\* the input listener of the quick slider of p, moved to value
SliderInput(p, value) ==
    /\ value \in SliderValues
    /\ value # sliders[p].slider
    /\ sliders' = [sliders EXCEPT ![p] = [slider |-> value, label |-> value, input |-> value,
                                           stored |-> <<value>>, entered |-> <<value>>]]
    /\ UNCHANGED <<form, lastOp, lastSaved, awaitingData, language, carousel, tempWs, exported, opened, nStarts>>
    /\ UNCHANGED storeVars
    /\ UNCHANGED sessionVars

\* sliderEl.value = value on a range input: a value that is no number is replaced
\* by the default value of the slider, one of its own values
Sanitized(value) == IF value \in SliderValues THEN {value} ELSE SliderValues

\* the change listener of the settings field of p, left holding value
FieldChange(p, value) ==
    /\ value \in FieldValues
    /\ value # sliders[p].input
    /\ \E shown \in Sanitized(value) :
         sliders' = [sliders EXCEPT ![p] = [slider |-> shown, label |-> value, input |-> value,
                                            stored |-> <<value>>, entered |-> <<value>>]]
    /\ UNCHANGED <<form, lastOp, lastSaved, awaitingData, language, carousel, tempWs, exported, opened, nStarts>>
    /\ UNCHANGED storeVars
    /\ UNCHANGED sessionVars

----------------------------------------------------------------------------
(* The cover flow slider *)
\* delays in milliseconds
AutoPlayMs == 5000
NextMs == 500
PrevMs == 50
DotStepMs == 100

Timer(kind, due) == [kind |-> kind, due |-> due]

\* the page as loaded, after startAutoPlay(): item 0 in front and its dot active.
\* list holds the original indices of the items in document order, timers the
\* pending timers in the order of their creation, autoPlayInterval the position
\* of the timer the variable names (0: none, or one that is cleared); atOpen is
\* <<currentIndex, front item>> when the modal was opened, clicked tells that a
\* button or dot was clicked since, and target is the dot clicked last, as long
\* as nothing else was clicked and autoplay has not ticked
InitCarousel ==
    [currentIndex |-> 0, list |-> [k \in 1..TotalItems |-> k - 1], active |-> {0},
     isAnimating |-> FALSE, sliding |-> FALSE,
     timers |-> <<Timer("interval", AutoPlayMs)>>, autoPlayInterval |-> 1,
     modal |-> FALSE, atOpen |-> <<>>, clicked |-> FALSE, target |-> <<>>]

\* clearTimeout / clearInterval of the timer at position k, and the end of a timeout
RemoveTimer(c, k) ==
    IF k = 0 THEN c
    ELSE [c EXCEPT !.timers = RemoveAt(@, k),
                   !.autoPlayInterval = IF @ = k THEN 0 ELSE IF @ > k THEN @ - 1 ELSE @]

\* dots that keep the class of the item left
UpdateDotsKeepsOld(c, newIndex) ==
    [c EXCEPT !.active = @ \cup {newIndex}, !.currentIndex = newIndex]

UpdateDots(c, newIndex) ==
    [c EXCEPT !.active = (@ \ {c.currentIndex}) \cup {newIndex}, !.currentIndex = newIndex]

\* showNext up to its setTimeout
ShowNext(c) ==
    IF c.isAnimating THEN c
    ELSE [c EXCEPT !.isAnimating = TRUE, !.sliding = TRUE,
                   !.timers = Append(@, Timer("nextEnd", NextMs))]

\* the callback of the setTimeout of showNext
NextEnd(c) ==
    LET moved == [c EXCEPT !.list = Tail(@) \o <<Head(@)>>, !.sliding = FALSE]
    IN  [UpdateDots(moved, (c.currentIndex + 1) % TotalItems) EXCEPT !.isAnimating = FALSE]

\* showPrev up to its setTimeout
ShowPrev(c) ==
    IF c.isAnimating THEN c
    ELSE LET moved == [c EXCEPT !.isAnimating = TRUE,
                                !.list = <<@[Len(@)]>> \o SubSeq(@, 1, Len(@) - 1),
                                !.timers = Append(@, Timer("prevEnd", PrevMs))]
         IN  UpdateDots(moved, (c.currentIndex - 1 + TotalItems) % TotalItems)

\* startAutoPlay: clearInterval(autoPlayInterval), then setInterval(showNext, 5000)
StartAutoPlay(c) ==
    LET cleared == RemoveTimer(c, c.autoPlayInterval)
    IN  [cleared EXCEPT !.timers = Append(@, Timer("interval", AutoPlayMs)),
                        !.autoPlayInterval = Len(cleared.timers) + 1]

\* a click on a button or a dot: what it means for atOpen, clicked and target
Clicked(c, target) == [c EXCEPT !.clicked = c.modal, !.target = target]

PageUnchanged ==
    /\ UNCHANGED <<form, lastOp, lastSaved, awaitingData, language, sliders, tempWs, exported, opened, nStarts>>
    /\ UNCHANGED storeVars
    /\ UNCHANGED sessionVars

\* nextBtn.onclick
NextClick ==
    /\ carousel' = Clicked(StartAutoPlay(ShowNext(carousel)), <<>>)
    /\ Len(carousel'.timers) <= MaxTimers
    /\ PageUnchanged

\* prevBtn.onclick
PrevClick ==
    /\ carousel' = Clicked(StartAutoPlay(ShowPrev(carousel)), <<>>)
    /\ Len(carousel'.timers) <= MaxTimers
    /\ PageUnchanged

\* the timers of a click on a dot: setTimeout(showNext or showPrev, i * 100)
RECURSIVE DotTimers(_, _, _)
DotTimers(kind, i, n) ==
    IF i >= n THEN <<>> ELSE <<Timer(kind, i * DotStepMs)>> \o DotTimers(kind, i + 1, n)

\* the click listener of the dot at index (nothing happens while animating or on
\* the current dot)
DotClick(index) ==
    /\ ~carousel.isAnimating
    /\ index # carousel.currentIndex
    /\ LET diff == index - carousel.currentIndex
           steps == IF diff > 0 THEN DotTimers("dotNext", 0, diff) ELSE DotTimers("dotPrev", 0, 0 - diff)
       IN  carousel' = Clicked(StartAutoPlay([carousel EXCEPT !.timers = @ \o steps]), <<index>>)
    /\ Len(carousel'.timers) <= MaxTimers
    /\ PageUnchanged

\* the click listener of the list, for a click on the front item (a click on
\* another item does nothing)
ListClick ==
    /\ ~carousel.modal
    /\ carousel' = [RemoveTimer(carousel, carousel.autoPlayInterval) EXCEPT
                        !.modal = TRUE, !.atOpen = <<carousel.currentIndex, carousel.list[1]>>,
                        !.clicked = FALSE, !.target = <<>>]
    /\ PageUnchanged

\* closeModalHandler
CloseModalHandler ==
    /\ carousel.modal
    /\ carousel' = [StartAutoPlay(carousel) EXCEPT !.modal = FALSE, !.atOpen = <<>>, !.clicked = FALSE,
                                                    !.target = <<>>]
    /\ PageUnchanged

\* time passes, in steps of the shortest delay, while no timer is due
Elapse ==
    /\ carousel.timers # <<>>
    /\ \A k \in 1..Len(carousel.timers) : carousel.timers[k].due > 0
    /\ carousel' = [carousel EXCEPT !.timers = [k \in 1..Len(@) |-> [@[k] EXCEPT !.due = @ - PrevMs]]]
    /\ PageUnchanged

\* the timer that is due and was created first
DueTimer(c) ==
    IF \E k \in 1..Len(c.timers) : c.timers[k].due = 0
    THEN CHOOSE k \in 1..Len(c.timers) :
            c.timers[k].due = 0 /\ \A j \in 1..(k - 1) : c.timers[j].due # 0
    ELSE 0

\* the callback of the timer that is due runs
TimerFires ==
    /\ DueTimer(carousel) # 0
    /\ LET k == DueTimer(carousel)
           kind == carousel.timers[k].kind
       IN  carousel' =
             CASE kind = "interval" ->
                    [ShowNext([carousel EXCEPT !.timers[k].due = AutoPlayMs]) EXCEPT !.target = <<>>]
               [] kind = "nextEnd" -> NextEnd(RemoveTimer(carousel, k))
               [] kind = "prevEnd" -> [RemoveTimer(carousel, k) EXCEPT !.isAnimating = FALSE]
               [] kind = "dotNext" -> ShowNext(RemoveTimer(carousel, k))
               [] kind = "dotPrev" -> ShowPrev(RemoveTimer(carousel, k))
    /\ PageUnchanged

InitPage ==
    /\ language = InitLanguage
    /\ sliders = InitSliders
    /\ carousel = InitCarousel

\* the startup channel after its config event has been handled and it has closed
Fetched == [readyState |-> "CLOSED", seeded |-> 1]

\* first run: nothing is stored
Init ==
    /\ form = FormA
    /\ history = <<>>
    /\ searchHistoryList = RenderHistory(history)
    /\ saved = <<>>
    /\ savedSearchesSelect = RenderSavedSearches(saved)
    /\ lastOp = NoOp
    /\ lastSaved = <<>>
    /\ awaitingData = <<>>
    /\ tempWs = Fetched
    /\ exported = <<>>
    /\ opened = 0
    /\ nStarts = 0
    /\ InitSession
    /\ InitPage

\* the session under the events msgs of the server and at most starts searches
Session(msgs, starts) ==
    \/ opened < starts /\ StartSearch
    \/ \E i \in ChannelIds : OnOpen(i)
    \/ \E i \in ChannelIds : \E data \in msgs : OnMessage(i, data)
    \/ \E i \in ChannelIds : OnErrorAndClose(i)
    \/ \E i \in ChannelIds : OnClose(i)
    \/ StopSearch
    \/ NewSearch
    \/ ExportToHTML

\* searches started one after the other or at the same time
Next ==
    \/ Session(SessionMessages, MaxStarts)
    \/ EditForm

Spec == Init /\ [][Next]_vars

\* searches that fail, are stopped or complete, started one after the other or at
\* the same time
RestartMessages ==
    {[type |-> "error", message |-> "failed"],
     [type |-> "scan_complete", results |-> <<PathA>>, summary |-> "done"]}

\* the form as the user filled it before the first search
InitRestart ==
    /\ form \in Forms
    /\ history = <<>>
    /\ searchHistoryList = RenderHistory(history)
    /\ saved = <<>>
    /\ savedSearchesSelect = RenderSavedSearches(saved)
    /\ lastOp = NoOp
    /\ lastSaved = <<>>
    /\ awaitingData = <<>>
    /\ tempWs = Fetched
    /\ exported = <<>>
    /\ opened = 0
    /\ nStarts = 0
    /\ InitSession
    /\ InitPage

NextRestart == Session(RestartMessages, MaxStarts)

SpecRestart == InitRestart /\ [][NextRestart]_vars

\* one search and every event of the server
NextStream == Session(Messages, 1)

SpecStream == Init /\ [][NextStream]_vars

\* the history and the saved searches while the channels requested stay
\* connecting; the history of earlier runs is either empty or one entry short of
\* MAX_HISTORY
StoredHistory == [i \in 1..(MAX_HISTORY - 1) |-> JsonRequest(BuildSearchPayload(FormA))]

InitHistory ==
    /\ form = FormA
    /\ history \in {<<>>, StoredHistory}
    /\ searchHistoryList = RenderHistory(history)
    /\ saved = <<>>
    /\ savedSearchesSelect = RenderSavedSearches(saved)
    /\ lastOp = NoOp
    /\ lastSaved = <<>>
    /\ awaitingData = <<>>
    /\ tempWs = Fetched
    /\ exported = <<>>
    /\ opened = 0
    /\ nStarts = Len(history)
    /\ InitSession
    /\ InitPage

SavedSearchActions(names) ==
    \/ \E name \in names \cup {<<>>} : SaveCurrentSearch(name)
    \/ LoadSelectedSearch
    \/ \E confirmed \in BOOLEAN : DeleteSelectedSearch(confirmed)

NextHistory ==
    \/ StartSearch
    \/ \E k \in 1..MAX_HISTORY : DeleteHistoryItem(k)
    \/ \E k \in 1..MAX_HISTORY : LoadHistoryItem(k)
    \/ SavedSearchActions({NameA})
    \/ EditForm

SpecHistory == InitHistory /\ [][NextHistory]_vars

\* the placeholder of the loaded translation file: none, one that starts with the
\* prompt sign and one that does not
AwaitingTexts == {<<>>, <<">", " ", "WARTE AUF DATEN...">>, <<"WARTE AUF DATEN...">>}

\* one search under each loaded translation
InitAwait ==
    /\ form = FormA
    /\ history = <<>>
    /\ searchHistoryList = RenderHistory(history)
    /\ saved = <<>>
    /\ savedSearchesSelect = RenderSavedSearches(saved)
    /\ lastOp = NoOp
    /\ lastSaved = <<>>
    /\ awaitingData \in AwaitingTexts
    /\ tempWs = Fetched
    /\ exported = <<>>
    /\ opened = 0
    /\ nStarts = 0
    /\ InitSession
    /\ InitPage

SpecAwait == InitAwait /\ [][NextStream]_vars

\* the settings and the language of the page, no search running
InitSettings ==
    /\ form = FormA
    /\ history = <<>>
    /\ searchHistoryList = RenderHistory(history)
    /\ saved = <<>>
    /\ savedSearchesSelect = RenderSavedSearches(saved)
    /\ lastOp = NoOp
    /\ lastSaved = <<>>
    /\ awaitingData = <<>>
    /\ tempWs = Fetched
    /\ exported = <<>>
    /\ opened = 0
    /\ nStarts = 0
    /\ InitSession
    /\ InitPage

NextLanguage ==
    \/ \E lang \in Langs : SetLanguage(lang)
    \/ \E k \in 1..MaxLoads : \E ok \in BOOLEAN : FetchSettles(k, ok)
    \/ \E k \in 1..MaxLoads : \E parsed \in BOOLEAN : JsonSettles(k, parsed)

SpecLanguage == InitSettings /\ [][NextLanguage]_vars

NextSliders ==
    \/ \E p \in Params : \E value \in SliderValues : SliderInput(p, value)
    \/ \E p \in Params : \E value \in FieldValues : FieldChange(p, value)

SpecSliders == InitSettings /\ [][NextSliders]_vars

NextCarousel ==
    \/ NextClick
    \/ PrevClick
    \/ \E index \in 0..(TotalItems - 1) : DotClick(index)
    \/ ListClick
    \/ CloseModalHandler
    \/ Elapse
    \/ TimerFires

SpecCarousel == InitSettings /\ [][NextCarousel]_vars

\* what the user types into a size field, and the unit chosen with it; a size of
\* two or more GB is left out
SizeTexts == {<<>>, <<"x">>, <<"0">>, <<"-", "1">>, <<"1">>, <<"2">>, <<"2", ".", "5">>}

SizeInputs ==
    {p \in SizeTexts \X {"KB", "MB", "GB"} : p[2] = "GB" => p[1] \notin {<<"2">>, <<"2", ".", "5">>}}
        \cup {<< <<"1", "5", "3", "6">>, "KB" >>, << <<"1", "2">>, "MB" >>}

MaxSizeInputs == {<< <<>>, "KB" >>, << <<"1">>, "GB" >>, << <<"1", "5", "3", "6">>, "KB" >>}

SizeForms ==
    {[FormA EXCEPT !.min_size_value = min[1], !.min_size_unit = min[2],
                   !.max_size_value = max[1], !.max_size_unit = max[2]] :
        min \in SizeInputs, max \in MaxSizeInputs}

\* the form with a folder excluded in the settings, and with no search path
FormX == [FormA EXCEPT !.excluded_folders = <<"n">>, !.file_extensions = <<"t">>, !.file_category = "Documents"]
FormEmpty == [FormB EXCEPT !.search_path = <<>>]

LoadEdits == {FormA, FormX, FormEmpty}

\* the user edits the form and the settings
EditLoad ==
    /\ \E f \in LoadEdits : f # form /\ form' = f
    /\ UNCHANGED <<lastOp, lastSaved, awaitingData, language, sliders, carousel, tempWs, exported, opened, nStarts>>
    /\ UNCHANGED storeVars
    /\ UNCHANGED sessionVars

\* requests are built, stored and loaded back into the form
InitLoad ==
    /\ form \in SizeForms \cup LoadEdits
    /\ history = <<>>
    /\ searchHistoryList = RenderHistory(history)
    /\ saved = <<>>
    /\ savedSearchesSelect = RenderSavedSearches(saved)
    /\ lastOp = NoOp
    /\ lastSaved = <<>>
    /\ awaitingData = <<>>
    /\ tempWs = Fetched
    /\ exported = <<>>
    /\ opened = 0
    /\ nStarts = 0
    /\ InitSession
    /\ InitPage

NextLoad ==
    \/ opened < 1 /\ StartSearch
    \/ SaveCurrentSearch(NameA)
    \/ LoadSelectedSearch
    \/ \E k \in 1..MAX_HISTORY : LoadHistoryItem(k)
    \/ EditLoad

SpecLoad == InitLoad /\ [][NextLoad]_vars

\* the events delivered on the startup channel and on the channel of a search
StartupMessages == RestartMessages \cup {ConfigMessage}

\* the application right after initialLoad: the startup channel is connecting,
\* and one search is run
InitStartup ==
    /\ form = FormA
    /\ history = <<>>
    /\ searchHistoryList = RenderHistory(history)
    /\ saved = <<>>
    /\ savedSearchesSelect = RenderSavedSearches(saved)
    /\ lastOp = NoOp
    /\ lastSaved = <<>>
    /\ awaitingData = <<>>
    /\ tempWs = [readyState |-> "CONNECTING", seeded |-> 0]
    /\ exported = <<>>
    /\ opened = 0
    /\ nStarts = 0
    /\ InitSession
    /\ InitPage

NextStartup ==
    \/ Session(StartupMessages, 1)
    \/ TempOpen
    \/ \E data \in StartupMessages : TempMessage(data)
    \/ TempClose

SpecStartup == InitStartup /\ [][NextStartup]_vars

\* the saved searches and the history used while one search runs
NextStore ==
    \/ Session(RestartMessages, 1)
    \/ SavedSearchActions({NameA})
    \/ \E k \in 1..MAX_HISTORY : DeleteHistoryItem(k)
    \/ \E k \in 1..MAX_HISTORY : LoadHistoryItem(k)

SpecStore == InitRestart /\ [][NextStore]_vars

NextSaved ==
    \/ SavedSearchActions(Names)
    \/ \E i \in 1..Cardinality(Names) : SelectSavedSearch(i)
    \/ EditForm

SpecSaved == Init /\ [][NextSaved]_vars

\* the request built from every raw text of the comma-separated fields
RawAlphabet == {"a", "b", " ", ","}
Raws == UNION {[1..n -> RawAlphabet] : n \in 0..MaxRaw}
RawSamples == {<<>>, <<",">>, <<" ", "a", " ", ",", ",", "b", " ">>, <<"b", ",", " ", "a", " ", "b">>}

RawForms ==
    {[FormA EXCEPT !.keywords = k, !.excluded_folders = x, !.file_extensions = e] :
        k \in Raws, x \in RawSamples, e \in RawSamples}

InitPayload ==
    /\ form \in RawForms
    /\ history = <<>>
    /\ searchHistoryList = RenderHistory(history)
    /\ saved = <<>>
    /\ savedSearchesSelect = RenderSavedSearches(saved)
    /\ lastOp = NoOp
    /\ lastSaved = <<>>
    /\ awaitingData = <<>>
    /\ tempWs = Fetched
    /\ exported = <<>>
    /\ opened = 0
    /\ nStarts = 0
    /\ InitSession
    /\ InitPage

NextPayload ==
    \/ StartSearch
    \/ \E i \in ChannelIds : OnOpen(i)
    \/ SaveCurrentSearch(NameA)

SpecPayload == InitPayload /\ [][NextPayload]_vars

----------------------------------------------------------------------------
(* Properties *)

\* C1: at most one channel created by startSearch is connecting or open, so a
\* submit while an earlier channel is still connecting opens no second one
C1_OneActiveChannel == Cardinality(ActiveChannels) <= 1

\* C2: while the session of some channel is Scanning, no step creates a channel
\* or adds an entry to the stored history
C2_NoStartWhileScanning ==
    [][(\E i \in ChannelIds : Scanning(i)) => (opened' = opened /\ history' = history)]_vars

\* C3: after a stop during Scanning with nothing captured, the stopped channel is
\* closing or closed, so that none of its later events is handled, the controls are
\* marked terminated, the captured result set is empty and export is disabled
C3_StopDiscardsLateEvents ==
    cancelled # 0 =>
        /\ channels[cancelled].readyState \in {"CLOSING", "CLOSED"}
        /\ ui.stopDisabled
        /\ searchResults = <<>>
        /\ ui.exportHidden

C3_Witness ==
    /\ cancelled # 0
    /\ channels[cancelled].readyState = "CLOSED"
    /\ \E k \in 1..Len(logDiv) : logDiv[k].kind = "task"
    /\ resultsDiv.items = <<>>

\* C4: after N startSearch calls from an empty history and no deletion the history
\* has min(N, MAX_HISTORY) entries, and each call puts its request first and moves
\* the kept entries down by one
C4_HistoryAfterStarts ==
    /\ [](nStarts >= 0 => Len(history) = Min(nStarts, MAX_HISTORY))
    /\ [][StartSearch =>
            /\ history'[1] = BuildSearchPayload(form)
            /\ Len(history') = Min(Len(history) + 1, MAX_HISTORY)
            /\ \A k \in 2..Len(history') : history'[k] = history[k - 1]]_vars

C4_Witness ==
    /\ nStarts = MAX_HISTORY + 1
    /\ Len(history) = MAX_HISTORY
    /\ history[1] = JsonRequest(BuildSearchPayload(FormB))
    /\ history[2] = JsonRequest(BuildSearchPayload(FormA))

\* C5: the delete button of the history item shown at position k removes exactly
\* the entry of index k - 1 and leaves the saved searches alone
C5_DeleteRemovesOneEntry ==
    [][\A k \in 1..MAX_HISTORY : DeleteHistoryItem(k) =>
            /\ Len(history') = Len(history) - 1
            /\ \A j \in 1..(k - 1) : history'[j] = history[j]
            /\ \A j \in k..Len(history') : history'[j] = history[j + 1]
            /\ saved' = saved]_vars

C5_Witness ==
    /\ lastOp.op = "removeHistory"
    /\ Len(history) >= 2
    /\ history[1] # history[2]

\* C6: the stored history never has more than MAX_HISTORY entries
C6_HistoryBounded == Len(history) <= MAX_HISTORY

C6_Witness ==
    /\ Len(history) = MAX_HISTORY
    /\ lastOp.op \in {"save", "load", "loadHistory"}
    /\ opened = MaxChannels

\* C7: loading the saved search the user selected by its name hands over the
\* request last saved under that name
C7_LoadReturnsSaved == lastOp.op = "load" => lastOp.data = Lookup(lastSaved, lastOp.name)

\* C8: saving under a name that is already stored replaces its request and changes
\* neither the stored names nor the request of any other name
C8_SaveOverwrites ==
    [][\A name \in Names : (HasKey(saved, name) /\ SaveCurrentSearch(name)) =>
            /\ SavedNames' = SavedNames
            /\ Lookup(saved', name) = Some(BuildSearchPayload(form))
            /\ \A other \in Names \ {name} : Lookup(saved', other) = Lookup(saved, other)]_vars

C8_Witness ==
    /\ lastOp.op = "overwrite"
    /\ Len(saved) >= 2
    /\ Lookup(saved, lastOp.name) # Lookup(saved, SavedNames[1])

\* C9: a scan_complete event with a non-empty results list leaves exactly that
\* list rendered, in order, captures it and enables export
C9_CompleteRendersResults ==
    [][\A i \in ChannelIds : \A data \in Messages :
            (data.type = "scan_complete" /\ Len(data.results) > 0 /\ OnMessage(i, data)) =>
                /\ RenderedPaths(resultsDiv') = data.results
                /\ resultsDiv'.text = <<>>
                /\ searchResults' = data.results
                /\ ~ui'.exportHidden]_vars

C9_Witness ==
    /\ sinceOpen.phase = "complete"
    /\ sinceOpen.found = 2
    /\ searchResults = <<PathB, PathA>>
    /\ RenderedPaths(resultsDiv) = searchResults
    /\ ~ui.exportHidden

\* C10: while only scan_start, item_found and scan_progress events have been
\* handled since the channel opened, the log has exactly one progress line once a
\* scan_progress event has been handled, and it shows the values of the last one
C10_OneProgressLine ==
    (sinceOpen.phase = "streaming" /\ sinceOpen.progress # <<>>) =>
        /\ ProgressLines(logDiv) = {logProgressElement}
        /\ logDiv[logProgressElement].progress = sinceOpen.progress

C10_Witness ==
    /\ sinceOpen.phase = "streaming"
    /\ sinceOpen.progress = Some([scanned |-> 9, found |-> 2])
    /\ sinceOpen.found > 0
    /\ Cardinality(ProgressLines(logDiv)) = 1
    /\ logDiv[Len(logDiv)].kind = "task"

\* C11: the keywords, file_extensions and excluded_folders lists of a built
\* request hold no empty string and no entry with leading or trailing white space,
\* and are the non-empty trimmed entries of the raw text in their input order
NonBlank(piece) == \E j \in 1..Len(piece) : piece[j] \notin WhiteSpace

Untrimmed(piece) ==
    LET first == CHOOSE j \in 1..Len(piece) :
                    piece[j] \notin WhiteSpace /\ \A h \in 1..(j - 1) : piece[h] \in WhiteSpace
        last == CHOOSE j \in 1..Len(piece) :
                    piece[j] \notin WhiteSpace /\ \A h \in (j + 1)..Len(piece) : piece[h] \in WhiteSpace
    IN  SubSeq(piece, first, last)

CleanEntries(list, raw) ==
    LET commas == {j \in 1..Len(raw) : raw[j] = ","}
        starts == {1} \cup {j + 1 : j \in commas}
        PieceAt(b) == SubSeq(raw, b, (CHOOSE e \in (b - 1)..Len(raw) :
                                        /\ e = Len(raw) \/ raw[e + 1] = ","
                                        /\ \A h \in b..e : raw[h] # ","))
        kept == {b \in starts : NonBlank(PieceAt(b))}
        Rank(b) == Cardinality({c \in kept : c <= b})
    IN  /\ \A k \in 1..Len(list) :
              list[k] # <<>> /\ list[k][1] \notin WhiteSpace /\ list[k][Len(list[k])] \notin WhiteSpace
        /\ Len(list) = Cardinality(kept)
        /\ \A b \in kept : list[Rank(b)] = Untrimmed(PieceAt(b))

CleanRequest(p, f) ==
    /\ CleanEntries(p.keywords, f.keywords)
    /\ CleanEntries(p.excluded_folders, f.excluded_folders)
    /\ CleanEntries(p.file_extensions, f.file_extensions)

C11_ListsTrimmedAndFiltered ==
    /\ \A k \in 1..Len(lastSaved) : CleanRequest(lastSaved[k][2], form)
    /\ \A i \in ChannelIds : channels[i].payload # <<>> => CleanRequest(channels[i].payload[1], form)
    /\ \A i \in ChannelIds : \A k \in 1..Len(channels[i].received) :
            CleanRequest(channels[i].received[k], form)

C11_Witness ==
    /\ form.keywords = <<" ", ",", "b">>
    /\ form.excluded_folders = <<" ", "a", " ", ",", ",", "b", " ">>
    /\ lastSaved # <<>>
    /\ lastSaved[1][2].keywords = <<<<"b">>>>
    /\ lastSaved[1][2].excluded_folders = << <<"a">>, <<"b">> >>
    /\ \E i \in ChannelIds : channels[i].received # <<>>

\* C12: the export button is shown only while the search form is hidden, the
\* channel of the latest search is not connecting and a scan_complete event with a
\* non-empty results list has been handled since the last onopen; and an export
\* changes neither the channels nor the captured results
C12_ExportOnlyAfterDone ==
    /\ [](~ui.exportHidden =>
            /\ ui.formHidden
            /\ ws # 0 /\ channels[ws].readyState # "CONNECTING"
            /\ sinceOpen.done)
    /\ [][ExportToHTML => (channels' = channels /\ searchResults' = searchResults /\ ws' = ws)]_vars

\* C13: once an error or scan_complete event of a channel has been handled, or the
\* channel has been closed by a stop, no later event of that channel changes the
\* rendered results, the captured results, the log or the export button
C13_TerminalIgnoresLateEvents ==
    [][\A i \in ChannelIds : \A data \in Messages :
            ((channels[i].terminal \/ channels[i].readyState \in {"CLOSING", "CLOSED"})
                /\ OnMessage(i, data)) =>
                    /\ resultsDiv' = resultsDiv
                    /\ searchResults' = searchResults
                    /\ logDiv' = logDiv
                    /\ ui'.exportHidden = ui.exportHidden]_vars

\* C14: an error event handled while the session of its channel is Scanning adds
\* the payload's message to the log as an error line and closes the channel that
\* delivered it, and no scan_complete event of a channel is handled after an error
\* event of it
C14_ErrorEventFails ==
    [][\A i \in ChannelIds : \A data \in Messages :
            /\ (data.type = "error" /\ Scanning(i) /\ OnMessage(i, data)) =>
                    /\ logDiv' = Append(logDiv, LogLine("error", data.message))
                    /\ channels'[i].readyState \in {"CLOSING", "CLOSED"}
            /\ (data.type = "scan_complete" /\ channels[i].failed) => ~OnMessage(i, data)]_vars

\* C15: when the transport of a channel fails, before or after it opened, the
\* connection error line is the last line of the log and the log is shown
C15_TransportErrorVisible ==
    [][\A i \in ChannelIds : OnErrorAndClose(i) =>
            /\ logDiv' # <<>>
            /\ logDiv'[Len(logDiv')].kind = "wserror"
            /\ LogShown(ui')]_vars

\* C16: no handler opens a channel by itself: the WebSockets created so far are
\* the one of initialLoad and one for every startSearch call, also after transport
\* errors, error events, stops and closes
C16_NoReconnect == (nStarts >= 0 /\ nStarts <= MAX_HISTORY) => ChannelsOpened = nStarts + 1

C16_Witness ==
    /\ nStarts = MaxStarts
    /\ \A i \in ChannelIds : channels[i].readyState = "CLOSED"
    /\ \E k \in 1..Len(logDiv) : logDiv[k].kind = "wserror"
    /\ \E k \in 1..Len(logDiv) : logDiv[k].kind = "terminated"

\* C17: a channel that is open has carried exactly one start_search, whose payload
\* is the request built by the startSearch call that created the channel
C17_OneStartSearchPerChannel ==
    \A i \in ChannelIds : channels[i].readyState = "OPEN" =>
        channels[i].received = <<JsonRequest(channels[i].payload[1])>>

\* C18: a stop while the session of ws is not Scanning changes neither the log nor
\* the controls nor the channels
C18_StopIdempotent ==
    [][(StopSearch /\ ~Scanning(ws)) => (logDiv' = logDiv /\ ui' = ui /\ channels' = channels)]_vars

\* C19: while only scan_start, item_found and scan_progress events have been handled
\* since the channel opened, the rendered result list is the paths of the item_found
\* events in their arrival order
C19_ItemsInArrivalOrder ==
    sinceOpen.phase = "streaming" /\ sinceOpen.found > 0 => RenderedPaths(resultsDiv) = sinceOpen.paths

C19_Witness ==
    /\ sinceOpen.phase = "streaming"
    /\ sinceOpen.paths = <<PathB, PathA>>
    /\ RenderedPaths(resultsDiv) = <<PathB, PathA>>
    /\ sinceOpen.progress # <<>>

\* C20: every startSearch call puts the request it built first in the stored
\* history, whatever becomes of its channel, and no other step of a session (an
\* event of a channel, a stop, a new search) changes the stored history
C20_HistoryBeforeChannel ==
    /\ [](\A i \in ChannelIds : channels[i].payload # <<>> =>
            \E k \in 1..Len(history) : history[k] = JsonRequest(channels[i].payload[1]))
    /\ [](nStarts >= 0 /\ nStarts <= MAX_HISTORY => Len(history) = nStarts)
    /\ [][history' # history =>
            (StartSearch /\ history'[1] = JsonRequest(BuildSearchPayload(form)))]_vars

C20_Witness ==
    /\ Len(history) = MaxStarts
    /\ history[1] = JsonRequest(BuildSearchPayload(FormB))
    /\ \E i \in ChannelIds : channels[i].readyState = "CLOSED" /\ channels[i].received = <<>>
    /\ \E k \in 1..Len(logDiv) : logDiv[k].kind = "wserror"

\* C21: while the channel of the latest startSearch call has not opened, nothing of
\* an earlier search is rendered or captured and the export button is hidden
C21_StartClearsEarlierSession ==
    (ws # 0 /\ channels[ws].readyState = "CONNECTING") =>
        /\ resultsDiv.items = <<>>
        /\ searchResults = <<>>
        /\ ui.exportHidden

\* C22: once an error or scan_complete event of the channel of the running search
\* has been handled, the new-search button is shown, or the channel is closing so
\* that its close event will show it
C22_NewSearchAfterTerminal ==
    (ws # 0 /\ channels[ws].terminal /\ ~ui.scanHidden) =>
        (~ui.newHidden \/ channels[ws].readyState = "CLOSING")

\* C23: saving, loading and deleting a saved search and deleting and loading a
\* history item change neither the channels nor the log, the rendered and captured
\* results or the controls; the former leave the stored history alone and the
\* latter the saved searches
C23_StoreIndependentOfSession ==
    [][/\ ((\E name \in Names \cup {<<>>} : SaveCurrentSearch(name))
            \/ LoadSelectedSearch
            \/ (\E confirmed \in BOOLEAN : DeleteSelectedSearch(confirmed))) =>
                (UNCHANGED <<channels, ws, logDiv, searchResults, resultsDiv, ui>> /\ history' = history)
       /\ (\E k \in 1..MAX_HISTORY : DeleteHistoryItem(k) \/ LoadHistoryItem(k)) =>
                (UNCHANGED <<channels, ws, logDiv, searchResults, resultsDiv, ui>> /\ saved' = saved)]_vars

C23_Witness ==
    /\ lastOp.op = "delete"
    /\ history # <<>>
    /\ ws # 0 /\ channels[ws].readyState = "OPEN"
    /\ searchResults # <<>>
    /\ ~ui.exportHidden

\* C24: a confirmed delete of the saved search the user selected removes exactly
\* that name and leaves every other name and its request as they were; a declined
\* delete changes nothing
C24_DeleteRemovesSelected ==
    [][\A confirmed \in BOOLEAN : DeleteSelectedSearch(confirmed) =>
            LET name == SelectedLabel(savedSearchesSelect)
            IN  IF confirmed
                THEN /\ ~HasKey(saved', name)
                     /\ \A other \in Names \ {name} : Lookup(saved', other) = Lookup(saved, other)
                ELSE saved' = saved]_vars

\* C25: the config event handled on the startup channel seeds the settings and
\* closes the channel, so the settings are seeded at most once and only on a
\* channel that is then closing or closed; any other event on the startup channel
\* changes neither the log, the rendered or captured results, the controls nor the
\* channels of the searches
C25_StartupChannelOnlyConfig ==
    /\ [](tempWs.seeded <= 1)
    /\ [](tempWs.seeded = 1 => tempWs.readyState \in {"CLOSING", "CLOSED"})
    /\ [][\A data \in StartupMessages : TempMessage(data) =>
            IF data.type = "config"
            THEN tempWs'.seeded = 1 /\ tempWs'.readyState = "CLOSING"
            ELSE UNCHANGED <<tempWs, channels, ws, logDiv, searchResults, resultsDiv, ui>>]_vars

C25_Witness ==
    /\ tempWs = Fetched
    /\ form.excluded_folders = <<"n", ",", " ", "m">>
    /\ ws # 0 /\ channels[ws].readyState = "OPEN"
    /\ searchResults # <<>>

\* the whole number a size text stands for; <<>> when the text is missing, is not
\* a number or is not positive
IntegerOf(text) ==
    CASE text \in {<<>>, <<"x">>, <<"0">>, <<"-", "1">>} -> <<>>
      [] text = <<"1">> -> <<1>>
      [] text = <<"1", ".", "5">> -> <<1>>
      [] text = <<"2">> -> <<2>>
      [] text = <<"2", ".", "5">> -> <<2>>
      [] text = <<"1", "2">> -> <<12>>
      [] text = <<"1", "5", "3", "6">> -> <<1536>>

UnitBytes(unit) == CASE unit = "KB" -> 1024 [] unit = "MB" -> 1048576 [] unit = "GB" -> 1073741824

ExpectedSize(text, unit) ==
    IF IntegerOf(text) = <<>> THEN <<>> ELSE <<IntegerOf(text)[1] * UnitBytes(unit)>>

ExpectedSizes(request, f) ==
    /\ request.min_size = ExpectedSize(f.min_size_value, f.min_size_unit)
    /\ request.max_size = ExpectedSize(f.max_size_value, f.max_size_unit)

\* C26: in the request built by a submit or by a save, min_size and max_size are
\* absent when the size text is missing, is not a number or is not positive, and
\* otherwise are its whole number times 1024, 1024^2 or 1024^3 for KB, MB or GB
C26_SizesInBuiltRequest ==
    /\ [][StartSearch => ExpectedSizes(history'[1], form) /\ ExpectedSizes(channels'[ws'].payload[1], form)]_vars
    /\ [][SaveCurrentSearch(NameA) => ExpectedSizes(Lookup(saved', NameA)[1], form)]_vars

C26_Witness ==
    /\ history # <<>>
    /\ form.min_size_value = <<"x">>
    /\ history[1].min_size = <<>>
    /\ history[1].max_size = <<1073741824>>
    /\ HasKey(saved, NameA)
    /\ Lookup(saved, NameA)[1].max_size = <<1073741824>>

\* C27: while the search path of the form is empty no step adds a history entry,
\* creates a channel or hands a request to a channel
C27_NoStartWithoutPath ==
    [][form.search_path = <<>> => (history' = history /\ opened' = opened /\ channels' = channels)]_vars

C27_Witness ==
    /\ form.search_path = <<>>
    /\ ~ui.formHidden
    /\ opened = 0
    /\ lastOp.op = "load"

NonSizeFields(r) ==
    <<r.search_path, r.keywords, r.search_type, r.excluded_folders, r.file_extensions,
      r.include_dot_folders, r.case_sensitive, r.use_regex, r.file_category>>

\* a stored request has just been loaded into the form
Loaded ==
    /\ LoadSelectedSearch \/ \E k \in 1..MAX_HISTORY : LoadHistoryItem(k)
    /\ lastOp'.data # UNDEFINED

\* C28: after a saved search or a history entry is loaded into the form, the
\* request built from the form has the non-size fields of the stored request,
\* whatever the form held before
C28_LoadRestoresFields ==
    [][Loaded => NonSizeFields(JsonRequest(BuildSearchPayload(form'))) = NonSizeFields(lastOp'.data[1])]_vars

\* C29: after a saved search or a history entry is loaded into the form, the
\* request built from the form has the min_size and max_size of the stored request
C29_LoadRestoresSizes ==
    [][Loaded => /\ JsonRequest(BuildSearchPayload(form')).min_size = lastOp'.data[1].min_size
                 /\ JsonRequest(BuildSearchPayload(form')).max_size = lastOp'.data[1].max_size]_vars

\* C30: after a scan_complete event with an empty results list is handled, the
\* result element shows the no-match placeholder and no item, and the export
\* button is hidden if it was hidden before, whether or not items were rendered
C30_EmptyCompleteShowsPlaceholder ==
    [][\A i \in ChannelIds : \A data \in Messages :
            (data.type = "scan_complete" /\ data.results = <<>> /\ OnMessage(i, data)) =>
                /\ resultsDiv'.text = NoMatchText
                /\ resultsDiv'.items = <<>>
                /\ (ui.exportHidden => ui'.exportHidden)]_vars

\* the channel of the search is open and only scan_start, item_found and
\* scan_progress events have been handled on it
Streaming == ws # 0 /\ channels[ws].readyState = "OPEN" /\ sinceOpen.phase = "streaming"

\* one rendered item per item_found event handled since the channel opened
ItemsCounted == Streaming => Len(resultsDiv.items) = sinceOpen.found

\* C31: while results stream in, the result element holds one item per item_found
\* event handled since the channel opened, and once an item_found event has been
\* handled the awaiting placeholder is gone, under every loaded translation
C31_StreamingKeepsEveryItem ==
    /\ ItemsCounted
    /\ (Streaming /\ sinceOpen.found > 0) => resultsDiv.text = <<>>

\* C32: once every load has finished, after selections that overlapped and with
\* no load failed, the applied translations, the language and the direction of
\* the document are those of the language selected last, which is also the
\* stored preference and the value of the switcher
C32_LastSelectedLanguageApplied ==
    (language.loads = <<>> /\ language.overlapped /\ ~language.failed) =>
        /\ language.preferred = <<language.switcher>>
        /\ language.current = language.switcher
        /\ language.lang = language.switcher
        /\ language.dir = Dir(language.switcher)

\* C33: once the user has entered a value for a parameter, by the quick slider or
\* by the settings field, the slider, its value label, the settings input and the
\* stored value all are the value entered last
C33_SliderAndFieldInSync ==
    \A p \in Params :
        sliders[p].entered # <<>> =>
            /\ sliders[p].slider = sliders[p].entered[1]
            /\ sliders[p].label = sliders[p].entered[1]
            /\ sliders[p].input = sliders[p].entered[1]
            /\ sliders[p].stored = sliders[p].entered

\* C34: whenever no transition is in progress, the front item of the list is the
\* item of index currentIndex, the dot at currentIndex is the only active one, and
\* currentIndex is an index of an item
C34_FrontItemIsCurrent ==
    ~carousel.isAnimating =>
        /\ carousel.list[1] = carousel.currentIndex
        /\ carousel.active = {carousel.currentIndex}
        /\ carousel.currentIndex \in 0..(TotalItems - 1)

C34_Witness ==
    /\ ~carousel.isAnimating
    /\ carousel.currentIndex = 2
    /\ carousel.list[1] = 2
    /\ carousel.modal
    /\ carousel.timers = <<>>

\* C35: when autoplay ticks after a click on a dot, with no other click in
\* between, the carousel has reached the dot that was clicked
C35_DotClickReachesTarget ==
    [][(TimerFires /\ carousel.target # <<>> /\ carousel'.target = <<>>) =>
            /\ carousel.currentIndex = carousel.target[1]
            /\ carousel.list[1] = carousel.target[1]]_vars

\* the autoplay timers armed
Intervals == {k \in 1..Len(carousel.timers) : carousel.timers[k].kind = "interval"}

\* C36: at most one autoplay timer is armed; while the modal is open and no button
\* or dot has been clicked since it opened, currentIndex and the front item are
\* those of the moment it opened; closing the modal arms autoplay
C36_ModalPausesSlideshow ==
    /\ [](Cardinality(Intervals) <= 1)
    /\ []((carousel.modal /\ ~carousel.clicked) =>
            carousel.atOpen = <<carousel.currentIndex, carousel.list[1]>>)
    /\ [][CloseModalHandler => carousel'.autoPlayInterval # 0]_vars

====
